---- MODULE Spec2Model ----
(***************************************************************************)
(* DyCoT-TAGLM: the query-text normalisation and triple-extraction engine. *)
(*   dataio/preprocessors.py   the Namespace Collapser                     *)
(*   kg/sparql_parser.py       the Triple Extractor (SparqlParser)         *)
(*   kg/triple_retrieval.py    _shorten and DBpediaRetriever               *)
(*   kg/entity_linking.py      the entity extractors                       *)
(* Text is modelled character by character: a Python str is a TLA+ string, *)
(* and every regular expression of the source is a matcher over its        *)
(* characters.                                                             *)
(***************************************************************************)
EXTENDS Integers, Sequences, FiniteSets, TLC

VARIABLES
    \* SparqlParser and the preprocessors: one record in flight
    global_prefixes, sample, stage, idx,
    \* uri_collapse_after_select applied once and twice
    c_in, c_out, c_pc,
    \* _replace_uri / _shorten on one IRI
    u_in, u_out, u_pc,
    \* _top_level_blocks, one character per step
    where_text, b_pos, blocks, buf, depth, b_pc,
    \* _extract_triples, one token per step
    block_text, tokens, i, subj, pred, triples, t_pc,
    \* DBpediaRetriever._fetch_dbpedia_triples on one entity
    f_entity, max_retries, attempt, f_queries, f_sleeps, f_err, res, f_out, f_pc,
    \* DBpediaRetriever.run over a list of records
    r_data, r_i, done_ids, cache, checkpoint_file,
    remove_checkpoint_on_complete, r_pc,
    \* run: the checkpoint it loaded, the entities it handed to
    \* _fetch_dbpedia_triples for each record, the list it saved last
    r_existing, r_fetched, r_results,
    \* EntityExtractorBase.run over a list of records
    x_class, x_data, x_entities, x_i, x_failed, x_pc

parserVars   == <<global_prefixes, sample, stage, idx>>
collapseVars == <<c_in, c_out, c_pc>>
uriVars      == <<u_in, u_out, u_pc>>
blockVars    == <<where_text, b_pos, blocks, buf, depth, b_pc>>
tripleVars   == <<block_text, tokens, i, subj, pred, triples, t_pc>>
fetchVars    == <<f_entity, max_retries, attempt, f_queries, f_sleeps, f_err,
                  res, f_out, f_pc>>
runVars      == <<r_data, r_i, done_ids, cache, checkpoint_file,
                  remove_checkpoint_on_complete, r_pc,
                  r_existing, r_fetched, r_results>>
extractVars  == <<x_class, x_data, x_entities, x_i, x_failed, x_pc>>
kgVars       == <<fetchVars, runVars, extractVars>>
textVars     == <<parserVars, collapseVars, uriVars, blockVars, tripleVars>>
vars == <<textVars, kgVars>>

----------------------------------------------------------------------------
(* Bounds of the model. *)

\* most fragments concatenated into one input text of the Collapser
MaxFrags == 4
\* most records one SparqlParser processes
MaxRecords == 2
\* most triple patterns in a generated WHERE body
MaxPats == 2
\* most characters of a generated brace text
MaxBraceLen == 5
\* most tokens of a generated free-form block
MaxToks == 4

----------------------------------------------------------------------------
(* Characters and the str methods the source uses. *)

Ch(s, k) == SubSeq(s, k, k)
CharsOf(s) == {Ch(s, k) : k \in 1..Len(s)}

UPPER  == "ABCDEFGHIJKLMNOPQRSTUVWXYZ"
LOWER  == "abcdefghijklmnopqrstuvwxyz"
DIGITS == "0123456789"

\* \s of Python's re
WS == {" ", "\t", "\n", "\r", "\f"}
\* [a-z0-9] under re.I
AlnumChars == CharsOf(UPPER) \cup CharsOf(LOWER) \cup CharsOf(DIGITS)
\* \w, which decides \b
WordChars == AlnumChars \cup {"_"}

LowerMap == [c \in CharsOf(UPPER) |-> Ch(LOWER, CHOOSE k \in 1..26 : Ch(UPPER, k) = c)]
ToLower(c) == IF c \in DOMAIN LowerMap THEN LowerMap[c] ELSE c

\* the literal keyword kw matches at position k of s, case-insensitively (re.I)
KwAt(s, k, kw) ==
    /\ k >= 1
    /\ k + Len(kw) - 1 <= Len(s)
    /\ \A j \in 1..Len(kw) : ToLower(Ch(s, k + j - 1)) = ToLower(Ch(kw, j))

\* the least member of S, a set of positions in lo..hi; hi + 1 when S is
\* empty, lo when lo > hi
Least(S, lo, hi) ==
    IF lo > hi THEN lo
    ELSE IF S = {} THEN hi + 1
    ELSE CHOOSE j \in S : \A j2 \in S : j <= j2

\* the greatest member of S, a set of positions in lo..hi; lo - 1 when S is
\* empty
Greatest(S, lo, hi) ==
    IF lo > hi THEN hi
    ELSE IF S = {} THEN lo - 1
    ELSE CHOOSE j \in S : \A j2 \in S : j >= j2

\* first position >= k whose character is not in C (a greedy C* from k)
SkipIn(s, k, C) == Least({j \in k..Len(s) : Ch(s, j) \notin C}, k, Len(s))

\* first position >= k whose character is in C (a greedy [^C]* from k)
SkipNotIn(s, k, C) == Least({j \in k..Len(s) : Ch(s, j) \in C}, k, Len(s))

\* last position <= k whose character is not in C, 0 when there is none
SkipBackIn(s, k, C) == Greatest({j \in 1..k : Ch(s, j) \notin C}, 1, k)

\* str.lstrip(chars)
LStrip(s, C) == SubSeq(s, SkipIn(s, 1, C), Len(s))
\* str.strip()
Strip(s) == SubSeq(s, SkipIn(s, 1, WS), SkipBackIn(s, Len(s), WS))
\* str.startswith
StartsWith(s, p) == Len(p) <= Len(s) /\ SubSeq(s, 1, Len(p)) = p
\* str.endswith
EndsWith(s, p) == Len(p) <= Len(s) /\ SubSeq(s, Len(s) - Len(p) + 1, Len(s)) = p

----------------------------------------------------------------------------
(* dataio/preprocessors.py: the Namespace Collapser.                       *)

\* PREFIX_MAP.items(), in the dict's insertion order; kg/triple_retrieval.py
\* holds the same table
PREFIX_MAP == <<
    <<"http://dbpedia.org/ontology/", "dbo">>,
    <<"http://dbpedia.org/property/", "dbp">>,
    <<"http://dbpedia.org/resource/", "res">>,
    <<"http://dbpedia.org/class/yago/", "yago">>,
    <<"http://www.w3.org/2000/01/rdf-schema#", "rdfs">>,
    <<"http://www.w3.org/1999/02/22-rdf-syntax-ns#", "rdf">>,
    <<"http://www.w3.org/2002/07/owl#", "owl">>,
    <<"http://www.w3.org/2001/XMLSchema#", "xsd">>,
    <<"http://xmlns.com/foaf/0.1/", "foaf">>,
    <<"http://purl.org/dc/elements/1.1/", "dc">>,
    <<"http://purl.org/dc/terms/", "dcterms">>,
    <<"http://www.w3.org/2004/02/skos/core#", "skos">>,
    <<"http://www.w3.org/2003/01/geo/wgs84_pos#", "geo">>,
    <<"http://www.georss.org/georss/", "georss">>,
    <<"http://dbpedia.org/", "dbpedia">>,
    <<"http://purl.org/linguistics/gold/", "gold">> >>

\* key=lambda kv: -len(kv[0])
NegLen(kv) == 0 - Len(kv[1])

\* sorted(items, key=NegLen): Python's sort is stable
RECURSIVE InsertByKey(_, _)
InsertByKey(sorted, kv) ==
    IF sorted = <<>> THEN <<kv>>
    ELSE IF NegLen(Head(sorted)) <= NegLen(kv)
         THEN <<Head(sorted)>> \o InsertByKey(Tail(sorted), kv)
         ELSE <<kv>> \o sorted

RECURSIVE Sorted(_)
Sorted(items) ==
    IF items = <<>> THEN <<>>
    ELSE InsertByKey(Sorted(SubSeq(items, 1, Len(items) - 1)), items[Len(items)])

\* mutant of _PREFIX_ORDER: the sorted table reversed, shortest namespace first
PREFIX_ORDER_ascending ==
    [k \in 1..Len(PREFIX_MAP) |-> Sorted(PREFIX_MAP)[Len(PREFIX_MAP) + 1 - k]]

_PREFIX_ORDER == Sorted(PREFIX_MAP)

\* the loop "for ns, prefix in _PREFIX_ORDER: if uri.startswith(ns): return ..."
\* from entry k on; miss is returned when no namespace matches
RECURSIVE FirstNamespace(_, _, _, _)
FirstNamespace(order, k, uri, miss) ==
    IF k > Len(order) THEN miss
    ELSE IF StartsWith(uri, order[k][1])
         THEN order[k][2] \o ":"
                \o LStrip(SubSeq(uri, Len(order[k][1]) + 1, Len(uri)), {":"})
         ELSE FirstNamespace(order, k + 1, uri, miss)

\* match: [group0 |-> the whole <...>, group1 |-> what the brackets hold]
_replace_uri(match) ==
    FirstNamespace(_PREFIX_ORDER, 1, Strip(match.group1), match.group0)

NoMatch == <<0, 0, 0>>

\* IRI_RX = <\s*([^>\s]+)\s*> anchored at k: <<end + 1, group 1 from, to>>
IRI_RX_match(s, k) ==
    IF k > Len(s) \/ Ch(s, k) # "<" THEN NoMatch
    ELSE LET a == SkipIn(s, k + 1, WS)
             b == SkipNotIn(s, a, WS \cup {">"})
             c == SkipIn(s, b, WS)
         IN  IF b > a /\ c <= Len(s) /\ Ch(s, c) = ">"
             THEN <<c + 1, a, b - 1>>
             ELSE NoMatch

\* IRI_RX.sub(_replace_uri, s), from position k: the text up to the next
\* match is copied, the match is replaced
RECURSIVE IRI_RX_sub(_, _)
IRI_RX_sub(s, k) ==
    LET j == Least({n \in k..Len(s) : IRI_RX_match(s, n)[1] > 0}, k, Len(s))
        m == IRI_RX_match(s, j)
    IN  IF j > Len(s) THEN SubSeq(s, k, Len(s))
        ELSE SubSeq(s, k, j - 1)
               \o _replace_uri([group0 |-> SubSeq(s, j, m[1] - 1),
                                group1 |-> SubSeq(s, m[2], m[3])])
               \o IRI_RX_sub(s, m[1])

\* SELECT_RX = \bSELECT\b (re.I) anchored at k
SELECT_RX_match(s, k) ==
    /\ KwAt(s, k, "SELECT")
    /\ (k = 1 \/ Ch(s, k - 1) \notin WordChars)
    /\ (k + 6 > Len(s) \/ Ch(s, k + 6) \notin WordChars)

\* SELECT_RX.search(s): start of the first match at or after k, or 0
SELECT_RX_search(s, k) ==
    LET j == Least({n \in k..Len(s) : SELECT_RX_match(s, n)}, k, Len(s))
    IN  IF j > Len(s) THEN 0 ELSE j

uri_collapse_after_select(sparql) ==
    LET m == SELECT_RX_search(sparql, 1)
    IN  IF m = 0 THEN sparql
        ELSE IRI_RX_sub(Strip(SubSeq(sparql, m, Len(sparql))), 1)

----------------------------------------------------------------------------
(* kg/triple_retrieval.py: _shorten. *)

_shorten(uri) ==
    LET u == IF StartsWith(uri, "<") /\ EndsWith(uri, ">")
             THEN SubSeq(uri, 2, Len(uri) - 1)
             ELSE uri
    IN  FirstNamespace(_PREFIX_ORDER, 1, u, u)

----------------------------------------------------------------------------
(* kg/sparql_parser.py: the regular expressions. *)

\* [^\s;,.{}()], the characters of PNAME_RE and of a ^^datatype
PnameStop == WS \cup {";", ",", ".", "{", "}", "(", ")"}
\* SEP_RE = [;,.]
SepChars == {";", ",", "."}
\* [A-Za-z\-] of a language tag
LangChars == CharsOf(UPPER) \cup CharsOf(LOWER) \cup {"-"}

\* (?:[^"\\]|\\.)*" from position k: the position of the closing quote, or 0
RECURSIVE StringBody(_, _)
StringBody(s, k) ==
    LET j == SkipNotIn(s, k, {"\"", "\\"})
    IN  IF j > Len(s) THEN 0
        ELSE IF Ch(s, j) = "\"" THEN j
        ELSE IF j + 1 <= Len(s) /\ Ch(s, j + 1) # "\n"
             THEN StringBody(s, j + 2)
             ELSE 0

\* STRING_RE anchored at k: the position after the match, or 0
STRING_RE_match(s, k) ==
    IF k > Len(s) \/ Ch(s, k) # "\"" THEN 0
    ELSE LET q == StringBody(s, k + 1)
             lang == SkipIn(s, q + 2, LangChars)
             dtype == SkipNotIn(s, q + 3, PnameStop)
         IN  IF q = 0 THEN 0
             ELSE IF q + 1 <= Len(s) /\ Ch(s, q + 1) = "@" /\ lang > q + 2
                  THEN lang
             ELSE IF q + 2 <= Len(s) /\ SubSeq(s, q + 1, q + 2) = "^^"
                     /\ dtype > q + 3
                  THEN dtype
             ELSE q + 1

\* IRI_RE = <[^>]*> anchored at k
IRI_RE_match(s, k) ==
    IF k > Len(s) \/ Ch(s, k) # "<" THEN 0
    ELSE LET e == SkipNotIn(s, k + 1, {">"})
         IN  IF e <= Len(s) THEN e + 1 ELSE 0

\* PNAME_RE = [^\s;,.{}()]+ anchored at k
PNAME_RE_match(s, k) ==
    LET e == SkipNotIn(s, k, PnameStop) IN IF e > k THEN e ELSE 0

\* SEP_RE anchored at k
SEP_RE_match(s, k) ==
    IF k <= Len(s) /\ Ch(s, k) \in SepChars THEN k + 1 ELSE 0

\* TOKEN_RE = (?:STRING_RE|IRI_RE|PNAME_RE|SEP_RE): the first alternative
\* that matches at k decides
TOKEN_RE_match(s, k) ==
    IF STRING_RE_match(s, k) > 0 THEN STRING_RE_match(s, k)
    ELSE IF IRI_RE_match(s, k) > 0 THEN IRI_RE_match(s, k)
    ELSE IF PNAME_RE_match(s, k) > 0 THEN PNAME_RE_match(s, k)
    ELSE SEP_RE_match(s, k)

\* re.findall(TOKEN_RE, s), from position k
RECURSIVE TOKEN_RE_findall(_, _)
TOKEN_RE_findall(s, k) ==
    LET j == Least({n \in k..Len(s) : TOKEN_RE_match(s, n) > 0}, k, Len(s))
    IN  IF j > Len(s) THEN <<>>
        ELSE <<SubSeq(s, j, TOKEN_RE_match(s, j) - 1)>>
               \o TOKEN_RE_findall(s, TOKEN_RE_match(s, j))

NoPrefix == <<0, "", "">>

\* PREFIX_PATTERN = PREFIX\s+([a-z0-9]+):\s*<([^>]+)> (re.I) anchored at k:
\* <<position after the match, group 1, group 2>>
PREFIX_PATTERN_match(s, k) ==
    IF ~KwAt(s, k, "PREFIX") THEN NoPrefix
    ELSE LET a == SkipIn(s, k + 6, WS)
             b == SkipIn(s, a, AlnumChars)
             c == SkipIn(s, b + 1, WS)
             e == SkipNotIn(s, c + 1, {">"})
         IN  IF /\ a > k + 6
                /\ b > a
                /\ b <= Len(s) /\ Ch(s, b) = ":"
                /\ c <= Len(s) /\ Ch(s, c) = "<"
                /\ e > c + 1
                /\ e <= Len(s)
             THEN <<e + 1, SubSeq(s, a, b - 1), SubSeq(s, c + 1, e - 1)>>
             ELSE NoPrefix

\* PREFIX_PATTERN.findall(s), from position k: the (name, iri) pairs
RECURSIVE PREFIX_PATTERN_findall(_, _)
PREFIX_PATTERN_findall(s, k) ==
    LET j == Least({n \in k..Len(s) : PREFIX_PATTERN_match(s, n)[1] > 0}, k, Len(s))
        m == PREFIX_PATTERN_match(s, j)
    IN  IF j > Len(s) THEN <<>>
        ELSE <<<<m[2], m[3]>>>> \o PREFIX_PATTERN_findall(s, m[1])

\* dict(pairs): a later pair replaces an earlier one with the same key
Dict(pairs) ==
    [key \in {pairs[j][1] : j \in 1..Len(pairs)} |->
        pairs[CHOOSE j \in 1..Len(pairs) :
                 /\ pairs[j][1] = key
                 /\ \A j2 \in (j + 1)..Len(pairs) : pairs[j2][1] # key][2]]

NoWhere == [found |-> FALSE, group1 |-> ""]

\* WHERE_PATTERN = WHERE\s*\{(.+?)\} (re.I | re.S) anchored at k: the lazy
\* group ends at the first "}" that leaves it at least one character
WHERE_PATTERN_match(s, k) ==
    IF ~KwAt(s, k, "WHERE") THEN NoWhere
    ELSE LET a == SkipIn(s, k + 5, WS)
             e == SkipNotIn(s, a + 2, {"}"})
         IN  IF a <= Len(s) /\ Ch(s, a) = "{" /\ e <= Len(s)
             THEN [found |-> TRUE, group1 |-> SubSeq(s, a + 1, e - 1)]
             ELSE NoWhere

\* WHERE_PATTERN.search(s): the first match at or after k
WHERE_PATTERN_search(s, k) ==
    LET j == Least({n \in k..Len(s) : WHERE_PATTERN_match(s, n).found}, k, Len(s))
    IN  IF j > Len(s) THEN NoWhere ELSE WHERE_PATTERN_match(s, j)

----------------------------------------------------------------------------
(* kg/sparql_parser.py: _extract_triples. *)

\* the list "strip": each pattern is a keyword and the shape of what follows
\*   paren  KW\s*\([^)]*\)     by    KW\s+BY[^.}]*
\*   rest   KW[^.}]*           int   KW\s+\d+
strip == <<
    [kw |-> "FILTER", shape |-> "paren"],
    [kw |-> "BIND",   shape |-> "paren"],
    [kw |-> "GROUP",  shape |-> "by"],
    [kw |-> "HAVING", shape |-> "rest"],
    [kw |-> "ORDER",  shape |-> "by"],
    [kw |-> "LIMIT",  shape |-> "int"],
    [kw |-> "OFFSET", shape |-> "int"] >>

\* one pattern of strip anchored at k (re.I | re.S): the position after the
\* match, or 0
StripMatch(pat, s, k) ==
    IF ~KwAt(s, k, pat.kw) THEN 0
    ELSE LET a  == k + Len(pat.kw)
             ws == SkipIn(s, a, WS)
         IN  CASE pat.shape = "paren" ->
                    LET e == SkipNotIn(s, ws + 1, {")"})
                    IN  IF ws <= Len(s) /\ Ch(s, ws) = "(" /\ e <= Len(s)
                        THEN e + 1 ELSE 0
               [] pat.shape = "by" ->
                    IF ws > a /\ KwAt(s, ws, "BY")
                    THEN SkipNotIn(s, ws + 2, {".", "}"}) ELSE 0
               [] pat.shape = "rest" ->
                    SkipNotIn(s, a, {".", "}"})
               [] pat.shape = "int" ->
                    LET e == SkipIn(s, ws, CharsOf(DIGITS))
                    IN  IF ws > a /\ e > ws THEN e ELSE 0

\* re.sub(pat, '', s, flags=re.I | re.S), from position k
RECURSIVE StripSub(_, _, _)
StripSub(pat, s, k) ==
    LET j == Least({n \in k..Len(s) : StripMatch(pat, s, n) > 0}, k, Len(s))
    IN  IF j > Len(s) THEN SubSeq(s, k, Len(s))
        ELSE SubSeq(s, k, j - 1) \o StripSub(pat, s, StripMatch(pat, s, j))

\* "for pat in strip: block_text = re.sub(pat, '', block_text)", from pattern n
RECURSIVE StripAll(_, _)
StripAll(s, n) ==
    IF n > Len(strip) THEN s ELSE StripAll(StripSub(strip[n], s, 1), n + 1)

\* subj, pred = None, None: a slot is <<>> when unset and <<token>> when set
None == <<>>

\* mutant of TripleStep: "." emits what is pending, an absent part as ""
TripleStep_dot_flushes(st, t) ==
    IF t = "."
    THEN [subj |-> None, pred |-> None,
          triples |-> IF st.subj = None THEN st.triples
                      ELSE Append(st.triples,
                             <<st.subj[1],
                               IF st.pred = None THEN "" ELSE st.pred[1], "">>)]
    ELSE IF t = ";" THEN [st EXCEPT !.pred = None]
    ELSE IF t = "," THEN st
    ELSE IF st.subj = None THEN [st EXCEPT !.subj = <<t>>]
    ELSE IF st.pred = None THEN [st EXCEPT !.pred = <<t>>]
    ELSE [st EXCEPT !.triples = Append(@, <<st.subj[1], st.pred[1], t>>)]

\* mutant of TripleStep: the branch of "," is missing, "," is a term
TripleStep_comma_is_term(st, t) ==
    IF t = "." THEN [st EXCEPT !.subj = None, !.pred = None]
    ELSE IF t = ";" THEN [st EXCEPT !.pred = None]
    ELSE IF st.subj = None THEN [st EXCEPT !.subj = <<t>>]
    ELSE IF st.pred = None THEN [st EXCEPT !.pred = <<t>>]
    ELSE [st EXCEPT !.triples = Append(@, <<st.subj[1], st.pred[1], t>>)]

\* mutant of TripleStep: "." clears the predicate only, as ";" does
TripleStep_dot_keeps_subject(st, t) ==
    IF t = "." \/ t = ";" THEN [st EXCEPT !.pred = None]
    ELSE IF t = "," THEN st
    ELSE IF st.subj = None THEN [st EXCEPT !.subj = <<t>>]
    ELSE IF st.pred = None THEN [st EXCEPT !.pred = <<t>>]
    ELSE [st EXCEPT !.triples = Append(@, <<st.subj[1], st.pred[1], t>>)]

\* mutant of TripleStep: "," clears the predicate, as ";" does
TripleStep_comma_clears(st, t) ==
    IF t = "." THEN [st EXCEPT !.subj = None, !.pred = None]
    ELSE IF t = ";" \/ t = "," THEN [st EXCEPT !.pred = None]
    ELSE IF st.subj = None THEN [st EXCEPT !.subj = <<t>>]
    ELSE IF st.pred = None THEN [st EXCEPT !.pred = <<t>>]
    ELSE [st EXCEPT !.triples = Append(@, <<st.subj[1], st.pred[1], t>>)]

\* mutant of TripleStep: ";" clears the subject and keeps the predicate
TripleStep_semicolon_clears_subject(st, t) ==
    IF t = "." THEN [st EXCEPT !.subj = None, !.pred = None]
    ELSE IF t = ";" THEN [st EXCEPT !.subj = None]
    ELSE IF t = "," THEN st
    ELSE IF st.subj = None THEN [st EXCEPT !.subj = <<t>>]
    ELSE IF st.pred = None THEN [st EXCEPT !.pred = <<t>>]
    ELSE [st EXCEPT !.triples = Append(@, <<st.subj[1], st.pred[1], t>>)]

\* one iteration of "while i < len(tokens)" on token t
TripleStep(st, t) ==
    IF t = "." THEN [st EXCEPT !.subj = None, !.pred = None]
    ELSE IF t = ";" THEN [st EXCEPT !.pred = None]
    ELSE IF t = "," THEN st
    ELSE IF st.subj = None THEN [st EXCEPT !.subj = <<t>>]
    ELSE IF st.pred = None THEN [st EXCEPT !.pred = <<t>>]
    ELSE [st EXCEPT !.triples = Append(@, <<st.subj[1], st.pred[1], t>>)]

\* the whole loop over toks from index n
RECURSIVE TripleLoop(_, _, _)
TripleLoop(st, toks, n) ==
    IF n > Len(toks) THEN st ELSE TripleLoop(TripleStep(st, toks[n]), toks, n + 1)

_extract_triples(text) ==
    TripleLoop([subj |-> None, pred |-> None, triples |-> <<>>],
               TOKEN_RE_findall(StripAll(text, 1), 1), 1).triples

----------------------------------------------------------------------------
(* kg/sparql_parser.py: _top_level_blocks. *)

\* one iteration of "for ch in where_text"; buf is kept joined
BlockStep(st, ch) ==
    IF ch = "{"
    THEN LET flushed == IF st.depth = 0 /\ st.buf # ""
                        THEN [st EXCEPT !.blocks = Append(@, Strip(st.buf)),
                                        !.buf = ""]
                        ELSE st
         IN  [flushed EXCEPT !.depth = @ + 1,
                             !.buf = IF st.depth + 1 > 1 THEN @ \o ch ELSE @]
    ELSE IF ch = "}"
    THEN IF st.depth - 1 > 0
         THEN [st EXCEPT !.depth = @ - 1, !.buf = @ \o ch]
         ELSE [blocks |-> Append(st.blocks, Strip(st.buf)), buf |-> "",
               depth |-> st.depth - 1]
    ELSE [st EXCEPT !.buf = @ \o ch]

\* the tail after the loop
BlockTail(st) ==
    IF Strip(st.buf) # "" THEN Append(st.blocks, Strip(st.buf)) ELSE st.blocks

\* the loop over the characters lo..hi of text, in order.  The range is
\* halved and the state after the first half is evaluated (the test on
\* its depth) before the second half starts, so that the nesting of the
\* evaluation stays logarithmic in the length of the text.
RECURSIVE BlockLoop(_, _, _, _)
BlockLoop(st, text, lo, hi) ==
    IF lo > hi THEN st
    ELSE IF lo = hi THEN BlockStep(st, Ch(text, lo))
    ELSE LET half == BlockLoop(st, text, lo, (lo + hi) \div 2)
         IN  IF half.depth \in Int
             THEN BlockLoop(half, text, (lo + hi) \div 2 + 1, hi)
             ELSE half

_top_level_blocks(text) ==
    BlockTail(BlockLoop([blocks |-> <<>>, buf |-> "", depth |-> 0],
                        text, 1, Len(text)))

----------------------------------------------------------------------------
(* kg/sparql_parser.py: SparqlParser.parse_sparql, one record. *)

\* s.get("formated_query") or s.get("query") or "": an absent field is ""
QueryText(s) == IF s.formated_query # "" THEN s.formated_query ELSE s.query

\* mutant of AnswerMap: plain assignment, the last value of a variable wins
RECURSIVE AnswerMap_last(_, _, _)
AnswerMap_last(answers, n, ans_map) ==
    IF n > Len(answers) THEN ans_map
    ELSE IF answers[n].is_bool THEN AnswerMap_last(answers, n + 1, ans_map)
    ELSE AnswerMap_last(answers, n + 1,
             [k \in DOMAIN ans_map \cup {answers[n].var} |->
                 IF k = answers[n].var THEN <<answers[n].value>> ELSE ans_map[k]])

\* the answers loop: an entry is [is_bool, var, value]; var is its single key
RECURSIVE AnswerMap(_, _, _)
AnswerMap(answers, n, ans_map) ==
    IF n > Len(answers) THEN ans_map
    ELSE IF answers[n].is_bool THEN AnswerMap(answers, n + 1, ans_map)
    ELSE LET v == answers[n].var
             old == IF v \in DOMAIN ans_map THEN ans_map[v] ELSE <<>>
         IN  AnswerMap(answers, n + 1,
                 [k \in DOMAIN ans_map \cup {v} |->
                     IF k = v THEN Append(old, answers[n].value) ELSE ans_map[k]])

\* local = dict(PREFIX_PATTERN.findall(query_text))
LocalPrefixes(query_text) == Dict(PREFIX_PATTERN_findall(query_text, 1))

\* mutant of MergePrefixes: dict.update, the last writer wins
MergePrefixes_update(global, local) ==
    [k \in DOMAIN global \cup DOMAIN local |->
        IF k \in DOMAIN local THEN local[k] ELSE global[k]]

\* "for k, v in local.items(): self.global_prefixes.setdefault(k, v)"
MergePrefixes(global, local) ==
    [k \in DOMAIN global \cup DOMAIN local |->
        IF k \in DOMAIN global THEN global[k] ELSE local[k]]

\* "for block in _top_level_blocks(where_txt): flat.extend(...)", from block n
RECURSIVE Flat(_, _)
Flat(blks, n) ==
    IF n > Len(blks) THEN <<>> ELSE _extract_triples(blks[n]) \o Flat(blks, n + 1)

\* mutant of ExpandTok: the ":" between namespace and local name is lost
ExpandTok_no_colon(local, tok) ==
    LET c == SkipNotIn(tok, 1, {":"})
    IN  IF c <= Len(tok) /\ SubSeq(tok, 1, c - 1) \in DOMAIN local
        THEN local[SubSeq(tok, 1, c - 1)] \o SubSeq(tok, c + 1, Len(tok))
        ELSE tok

\* p, *tail = tok.split(":", 1); local[p]:tail[0] if tail and p in local
ExpandTok(local, tok) ==
    LET c == SkipNotIn(tok, 1, {":"})
    IN  IF c <= Len(tok) /\ SubSeq(tok, 1, c - 1) \in DOMAIN local
        THEN local[SubSeq(tok, 1, c - 1)] \o ":" \o SubSeq(tok, c + 1, Len(tok))
        ELSE tok

Expanded(local, flat) ==
    [n \in 1..Len(flat) |-> [e \in 1..3 |-> ExpandTok(local, flat[n][e])]]

\* mutant of Triples: the first {...} is the body, with or without WHERE
Triples_any_braces(query_text) ==
    LET a == SkipNotIn(query_text, 1, {"{"})
        b == SkipNotIn(query_text, a, {"}"})
    IN  IF b > Len(query_text) THEN <<>>
        ELSE Expanded(LocalPrefixes(query_text),
                      Flat(_top_level_blocks(SubSeq(query_text, a + 1, b - 1)), 1))

\* mutant of Triples: the expansion looks a prefix up in the parser's
\* global table when the record does not declare it
Triples_global_lookup(query_text) ==
    LET m == WHERE_PATTERN_search(query_text, 1)
    IN  IF ~m.found THEN <<>>
        ELSE Expanded(MergePrefixes(LocalPrefixes(query_text), global_prefixes),
                      Flat(_top_level_blocks(m.group1), 1))

\* the triples of one record
Triples(query_text) ==
    LET m == WHERE_PATTERN_search(query_text, 1)
    IN  IF ~m.found THEN <<>>
        ELSE Expanded(LocalPrefixes(query_text),
                      Flat(_top_level_blocks(m.group1), 1))

----------------------------------------------------------------------------
(* kg/triple_retrieval.py: DBpediaRetriever. *)

\* ("SKIPPED", "SKIPPED", _shorten(entity))
Skipped(entity) == <<"SKIPPED", "SKIPPED", _shorten(entity)>>

\* mutant of MayRetry: the last attempt sleeps too and the loop runs out
MayRetry_always(attempt_, max_retries_) == attempt_ < max_retries_

\* "if attempt < self.max_retries - 1", after an HTTPError or URLError
MayRetry(attempt_, max_retries_) == attempt_ < max_retries_ - 1

\* b.get(key, {"value": default})["value"]: a binding is a function from
\* some of "subject", "predicate", "object" to their values
BindingValue(b, key, default) == IF key \in DOMAIN b THEN b[key] ELSE default

\* the loop over res["results"]["bindings"]
ShortTriples(bindings, entity) ==
    [n \in 1..Len(bindings) |->
        << _shorten(BindingValue(bindings[n], "subject",
                                 "http://dbpedia.org/resource/" \o entity)),
           _shorten(BindingValue(bindings[n], "predicate", "UNKNOWN")),
           _shorten(BindingValue(bindings[n], "object",
                                 "http://dbpedia.org/resource/" \o entity)) >>]

\* re.sub(r"[^\w\s-]", "", entity).replace(" ", "_"), from character k
RECURSIVE CleanChars(_, _)
CleanChars(entity, k) ==
    IF k > Len(entity) THEN ""
    ELSE (IF Ch(entity, k) = " " THEN "_"
          ELSE IF Ch(entity, k) \in WordChars \cup WS \cup {"-"} THEN Ch(entity, k)
          ELSE "")
         \o CleanChars(entity, k + 1)

_clean_uri(entity) == Strip(CleanChars(entity, 1))

\* sample.get("id") of a record without the key
NoId == "<None>"

\* cache[sid]: the record of the cache, a list in insertion order, with id sid
CacheGet(cache_, sid) ==
    cache_[CHOOSE n \in 1..Len(cache_) : cache_[n].id = sid]

\* cache[sid] = rec: a known key keeps its place, a new key goes last
CachePut(cache_, rec) ==
    IF \E n \in 1..Len(cache_) : cache_[n].id = rec.id
    THEN [n \in 1..Len(cache_) |-> IF cache_[n].id = rec.id THEN rec ELSE cache_[n]]
    ELSE Append(cache_, rec)

\* cache = {rec["id"]: rec for rec in existing}, from entry n on
RECURSIVE CacheOf(_, _, _)
CacheOf(existing, n, cache_) ==
    IF n > Len(existing) THEN cache_
    ELSE CacheOf(existing, n + 1, CachePut(cache_, existing[n]))

----------------------------------------------------------------------------
(* kg/entity_linking.py: the entity extractors. *)

\* str.replace(' ', '_'), from character k
RECURSIVE Underscored(_, _)
Underscored(title, k) ==
    IF k > Len(title) THEN ""
    ELSE (IF Ch(title, k) = " " THEN "_" ELSE Ch(title, k))
         \o Underscored(title, k + 1)

\* RefinedEntityExtractor: the comprehension over spans, from span n on; a
\* span is the title of its predicted entity, "" when it has none
RECURSIVE RefinedEntities(_, _)
RefinedEntities(spans, n) ==
    IF n > Len(spans) THEN <<>>
    ELSE (IF spans[n] = "" THEN <<>> ELSE <<Underscored(spans[n], 1)>>)
         \o RefinedEntities(spans, n + 1)

\* uri.split('/')[-1] if uri and "/" in uri else uri
LastSegment(uri) ==
    SubSeq(uri, Greatest({k \in 1..Len(uri) : Ch(uri, k) = "/"}, 1, Len(uri)) + 1,
           Len(uri))

\* [ent.get("URI") for ent in raw if ent.get("URI")]: an entry of raw is its
\* URI, "" when it has none
RECURSIVE TruthyUris(_, _)
TruthyUris(raw, n) ==
    IF n > Len(raw) THEN <<>>
    ELSE (IF raw[n] = "" THEN <<>> ELSE <<raw[n]>>) \o TruthyUris(raw, n + 1)

\* FalconEntityExtractor: what follows the request; a response is
\* [dicts |-> whether the entries of 'entities' are dicts, raw |-> them]
FalconEntities(response) ==
    LET uris == IF response.raw = <<>> THEN <<>>
                ELSE IF response.dicts THEN TruthyUris(response.raw, 1)
                ELSE response.raw
    IN  [n \in 1..Len(uris) |-> LastSegment(uris[n])]

----------------------------------------------------------------------------
(* Inputs. *)

\* sep.join(parts)
RECURSIVE Join(_, _)
Join(parts, sep) ==
    IF parts = <<>> THEN ""
    ELSE IF Len(parts) = 1 THEN parts[1]
    ELSE parts[1] \o sep \o Join(Tail(parts), sep)

\* the sequences over S of length lo..hi
SeqsOf(S, lo, hi) == UNION {[1..n -> S] : n \in lo..hi}

\* PREFIX blocks a query may start with
Prologues == {
    "",
    "PREFIX ex: <http://ex.org/> ",
    "PREFIX ex: <http://other.org/> PREFIX dbo: <http://dbpedia.org/ontology/> " }

\* simple triple patterns
Patterns == {
    <<"?uri", "dbo:birthPlace", "res:Paris">>,
    <<"?uri", "rdf:type", "dbo:Person">>,
    <<"?x", "a", "ex:Foo">> }

PatLists == SeqsOf(Patterns, 1, MaxPats)

\* a brace-free WHERE body of simple patterns separated by "."
PatternBody(pats) ==
    Join([n \in 1..Len(pats) |-> Join(pats[n], " ")], " . ")
PatternQuery(pats) == "SELECT ?uri WHERE { " \o PatternBody(pats) \o " }"

\* a WHERE body that is a group of two alternatives joined by UNION
UnionQuery(p1, p2) ==
    "SELECT ?x WHERE { { " \o Join(p1, " ") \o " } UNION { "
        \o Join(p2, " ") \o " } }"

UnionPairs == {pp \in Patterns \X Patterns : pp[1] # pp[2]}

OtherQueries == {
    "ASK { ?x a ex:Foo }",
    "SELECT ?x WHERE { ?x a <http://dbpedia.org/ontology/Person> }",
    "SELECT ?x WHERE { ?x a ex:Foo . OPTIONAL { ?x ex:p ?y } . ?x ex:q ?z }" }

Bodies ==
    {PatternQuery(pats) : pats \in PatLists}
        \cup {UnionQuery(pp[1], pp[2]) : pp \in UnionPairs}
        \cup OtherQueries

Queries == {pro \o body : pro \in Prologues, body \in Bodies}

\* the answers field: bindings, or one bare boolean, or nothing
AnswerLists == {
    <<>>,
    <<[is_bool |-> TRUE, var |-> "", value |-> ""]>>,
    <<[is_bool |-> FALSE, var |-> "uri", value |-> "http://dbpedia.org/resource/Paris"],
      [is_bool |-> TRUE, var |-> "", value |-> ""],
      [is_bool |-> FALSE, var |-> "x", value |-> "1"],
      [is_bool |-> FALSE, var |-> "uri", value |-> "http://dbpedia.org/resource/Paris"]>> }

\* fragments of Collapser inputs
CollapseFrags == {
    "PREFIX dbo: <http://dbpedia.org/ontology/> ",
    "SELECT ?x WHERE { ?x ?p ",
    "<http://dbpedia.org/resource/Paris>",
    "<http://dbpedia.org/",
    "< http://dbpedia.org/ontology/:Person\t>",
    "<http://ex.org/a>",
    "> }" }

CollapseTexts == {Join(fs, "") : fs \in SeqsOf(CollapseFrags, 0, MaxFrags)}

\* IRIs handed to _replace_uri and _shorten: a namespace, up to MaxColons
\* colons, a local name; bracketed or bare
MaxColons == 2
RECURSIVE Colons(_)
Colons(n) == IF n = 0 THEN "" ELSE ":" \o Colons(n - 1)
Namespaces == {PREFIX_MAP[k][1] : k \in 1..Len(PREFIX_MAP)} \cup {"http://ex.org/"}
LocalNames == {"Paris", "class/yago/City", ""}
BareIris == {ns \o Colons(n) \o ln : ns \in Namespaces, n \in 0..MaxColons, ln \in LocalNames}
Iris == BareIris \cup {"<" \o u \o ">" : u \in BareIris}

\* texts handed to _top_level_blocks
BraceChars == {"{", "}", " ", "a"}
BraceTexts == {Join(cs, "") : cs \in SeqsOf(BraceChars, 0, MaxBraceLen)}

\* blocks handed to _extract_triples
Seps == {".", ";", ","}
NonSepToks == {"?x", "dbo:p", "\"a, b.\"@en"}
FreeToks == {"?s", "?p", "<http://a.b/c>"} \cup Seps
FilterClause == "FILTER(STRSTARTS(STR(?x), \"http://a.b/\"))"

\* s p o1 , o2 .
CommaShapes == {<<q[1], q[2], q[3], ",", q[4], ".">> : q \in [1..4 -> NonSepToks]}
\* s p1 o1 ; p2 o2 .
SemicolonShapes ==
    {<<q[1], q[2], q[3], ";", q[4], q[5], ".">> : q \in [1..5 -> NonSepToks]}
\* s p o . s2 p2 o2
DotShapes ==
    {<<q[1], q[2], q[3], ".", q[4], q[5], q[6]>> : q \in [1..6 -> NonSepToks]}
\* FILTER(...) s p o .   and   s p o . FILTER(...)
FilterShapes ==
    {<<FilterClause, q[1], q[2], q[3], ".">> : q \in [1..3 -> NonSepToks]}
        \cup {<<q[1], q[2], q[3], ".", FilterClause>> : q \in [1..3 -> NonSepToks]}

\* a pattern before or after a fragment that lacks its object, or its
\* predicate and object
Dangling == {<<"?s">>, <<"?s", "?p">>}
DanglingShapes ==
    {d \o <<".">> \o q : d \in Dangling, q \in [1..3 -> NonSepToks]}
        \cup {q \o <<".">> \o d : d \in Dangling, q \in [1..3 -> NonSepToks]}
        \cup {<<"?s", "?p", ";">> \o q : q \in [1..2 -> NonSepToks]}

BlockTexts ==
    {Join(ts, " ") : ts \in SeqsOf(FreeToks, 0, MaxToks) \cup CommaShapes
        \cup SemicolonShapes \cup DotShapes \cup FilterShapes
        \cup DanglingShapes}

\* what the endpoint answers: bindings of the first branch of the query
\* (predicate, object), of the second (subject, predicate), and one without
\* predicate; the second predicate is outside PREFIX_MAP
Bindings == {
    [predicate |-> "http://dbpedia.org/ontology/country",
     object |-> "http://dbpedia.org/resource/France"],
    [subject |-> "http://dbpedia.org/resource/Seine",
     predicate |-> "http://www.w3.org/ns/prov#wasDerivedFrom"],
    [object |-> "http://dbpedia.org/resource/France"] }
\* most bindings of one answer
MaxBindings == 2
Responses == SeqsOf(Bindings, 0, MaxBindings)
\* entities as _clean_uri leaves them
CleanEntities == {"Paris", "New_York"}
\* greatest max_retries of a retriever
MaxRetries == 2

\* records handed to DBpediaRetriever.run: with or without id, with entities
\* as the extractors give them; "?!" is cleaned to the empty string
EntityLists == {<<>>, <<"Paris">>, <<"New York", "?!">>}
RunRecords ==
    {[id |-> d, entities |-> es, retrieved_triples |-> None] :
        d \in {NoId, "q1", "q2"}, es \in EntityLists}
\* most records of one run
MaxData == 2
DataLists == SeqsOf(RunRecords, 1, MaxData)
\* how one call of _fetch_dbpedia_triples ends inside run
RunOutcomes == {"skipped", "empty", "one"}
FetchResult(outcome, cleaned) ==
    IF outcome = "skipped" THEN <<Skipped(cleaned)>>
    ELSE IF outcome = "empty" THEN <<>>
    ELSE ShortTriples(<<[predicate |-> "http://dbpedia.org/ontology/country",
                         object |-> "http://dbpedia.org/resource/France"]>>,
                      cleaned)

\* questions, and what the models behind the extractors answer
Questions == {"Where is Paris?", "Who founded New York?"}
\* most records of one extraction batch
MaxQuestions == 2
QuestionLists == SeqsOf(Questions, 1, MaxQuestions)
SpanLists == {<<>>, <<"Paris">>, <<"New York", "", "Paris">>}
FalconResponses == {
    [dicts |-> TRUE, raw |-> <<"http://dbpedia.org/resource/Paris", "">>],
    [dicts |-> FALSE, raw |-> <<"New_York", "http://dbpedia.org/resource/Rome/">>],
    [dicts |-> FALSE, raw |-> <<>>] }

----------------------------------------------------------------------------
(* The state machines.  Each specification runs one part of the program;   *)
(* the variables of the other parts stay idle.                             *)

ParserIdle   == global_prefixes = <<>> /\ sample = <<>> /\ stage = "off" /\ idx = 0
CollapseIdle == c_in = "" /\ c_out = <<>> /\ c_pc = "off"
UriIdle      == u_in = "" /\ u_out = "" /\ u_pc = "off"
BlocksIdle   == /\ where_text = "" /\ b_pos = 0 /\ blocks = <<>> /\ buf = ""
                /\ depth = 0 /\ b_pc = "off"
TriplesIdle  == /\ block_text = "" /\ tokens = <<>> /\ i = 0 /\ subj = None
                /\ pred = None /\ triples = <<>> /\ t_pc = "off"
FetchIdle    == /\ f_entity = "" /\ max_retries = 0 /\ attempt = 0
                /\ f_queries = 0 /\ f_sleeps = 0 /\ f_err = "none"
                /\ res = None /\ f_out = <<>> /\ f_pc = "off"
RunIdle      == /\ r_data = <<>> /\ r_i = 0 /\ done_ids = {} /\ cache = <<>>
                /\ checkpoint_file = None
                /\ remove_checkpoint_on_complete = TRUE /\ r_pc = "off"
                /\ r_existing = <<>> /\ r_fetched = <<>> /\ r_results = None
ExtractIdle  == /\ x_class = "" /\ x_data = <<>> /\ x_entities = <<>>
                /\ x_i = 0 /\ x_failed = {} /\ x_pc = "off"
KgIdle       == FetchIdle /\ RunIdle /\ ExtractIdle
TextIdle     == /\ ParserIdle /\ CollapseIdle /\ UriIdle /\ BlocksIdle
                /\ TriplesIdle

----------------------------------------------------------------------------
(* Spec: a preprocessor and one SparqlParser, record after record. *)

\* SparqlParser.__init__: self.global_prefixes = {}
Init ==
    /\ global_prefixes = <<>>
    /\ sample = <<>>
    /\ stage = "idle"
    /\ idx = 0
    /\ CollapseIdle /\ UriIdle /\ BlocksIdle /\ TriplesIdle /\ KgIdle

\* the next record of the corpus: its raw query and its answers
Load(q, ans) ==
    /\ stage \in {"idle", "parsed"}
    /\ idx < MaxRecords
    /\ sample' = <<[query |-> q, formated_query |-> "", answers |-> ans,
                    answers_value |-> <<>>, triples |-> <<>>]>>
    /\ stage' = "loaded"
    /\ UNCHANGED <<global_prefixes, idx>>
    /\ UNCHANGED <<collapseVars, uriVars, blockVars, tripleVars>>
    /\ UNCHANGED kgVars

\* VQuandaPreprocessor._normalize on the record: the raw query is replaced
\* by its collapsed text, the answers by []
Normalize ==
    /\ stage = "loaded"
    /\ sample' = <<[sample[1] EXCEPT
                      !.query = "",
                      !.formated_query = uri_collapse_after_select(sample[1].query),
                      !.answers = <<>>]>>
    /\ stage' = "normalized"
    /\ UNCHANGED <<global_prefixes, idx>>
    /\ UNCHANGED <<collapseVars, uriVars, blockVars, tripleVars>>
    /\ UNCHANGED kgVars

\* one iteration of the loop of SparqlParser.parse_sparql
Parse ==
    /\ stage \in {"loaded", "normalized"}
    /\ LET query_text == QueryText(sample[1])
       IN  /\ global_prefixes' =
                 MergePrefixes(global_prefixes, LocalPrefixes(query_text))
           /\ sample' = <<[sample[1] EXCEPT
                  !.answers_value = AnswerMap(sample[1].answers, 1, <<>>),
                  !.triples = Triples(query_text)]>>
    /\ stage' = "parsed"
    /\ idx' = idx + 1
    /\ UNCHANGED <<collapseVars, uriVars, blockVars, tripleVars>>
    /\ UNCHANGED kgVars

LoadAny == \E q \in Queries, ans \in AnswerLists : Load(q, ans)

Next == LoadAny \/ Normalize \/ Parse

Spec == Init /\ [][Next]_vars

----------------------------------------------------------------------------
(* SpecCollapse: uri_collapse_after_select on a text, then on its output. *)

InitCollapse ==
    /\ c_in \in CollapseTexts
    /\ c_out = <<>>
    /\ c_pc = "start"
    /\ ParserIdle /\ UriIdle /\ BlocksIdle /\ TriplesIdle /\ KgIdle

CollapseOnce ==
    /\ c_pc = "start"
    /\ c_out' = <<uri_collapse_after_select(c_in)>>
    /\ c_pc' = "once"
    /\ UNCHANGED <<c_in, parserVars, uriVars, blockVars, tripleVars>>
    /\ UNCHANGED kgVars

CollapseAgain ==
    /\ c_pc = "once"
    /\ c_out' = Append(c_out, uri_collapse_after_select(c_out[1]))
    /\ c_pc' = "twice"
    /\ UNCHANGED <<c_in, parserVars, uriVars, blockVars, tripleVars>>
    /\ UNCHANGED kgVars

NextCollapse == CollapseOnce \/ CollapseAgain

SpecCollapse == InitCollapse /\ [][NextCollapse]_vars

----------------------------------------------------------------------------
(* SpecUri: one IRI through the Collapser's substitution and through       *)
(* the retriever's _shorten.                                               *)

InitUri ==
    /\ u_in \in Iris
    /\ u_out = ""
    /\ u_pc = "start"
    /\ ParserIdle /\ CollapseIdle /\ BlocksIdle /\ TriplesIdle /\ KgIdle

\* IRI_RX.sub(_replace_uri, ...) on a bracketed IRI
ReplaceUri ==
    /\ u_pc = "start"
    /\ IRI_RX_match(u_in, 1)[1] = Len(u_in) + 1
    /\ u_out' = IRI_RX_sub(u_in, 1)
    /\ u_pc' = "replaced"
    /\ UNCHANGED <<u_in, parserVars, collapseVars, blockVars, tripleVars>>
    /\ UNCHANGED kgVars

ShortenUri ==
    /\ u_pc = "start"
    /\ u_out' = _shorten(u_in)
    /\ u_pc' = "shortened"
    /\ UNCHANGED <<u_in, parserVars, collapseVars, blockVars, tripleVars>>
    /\ UNCHANGED kgVars

NextUri == ReplaceUri \/ ShortenUri

SpecUri == InitUri /\ [][NextUri]_vars

----------------------------------------------------------------------------
(* SpecBlocks: _top_level_blocks, one character of where_text per step. *)

InitBlocks ==
    /\ where_text \in BraceTexts
    /\ b_pos = 0
    /\ blocks = <<>>
    /\ buf = ""
    /\ depth = 0
    /\ b_pc = "loop"
    /\ ParserIdle /\ CollapseIdle /\ UriIdle /\ TriplesIdle /\ KgIdle

\* one iteration of "for ch in where_text"
BlockChar ==
    /\ b_pc = "loop"
    /\ b_pos < Len(where_text)
    /\ LET st == BlockStep([blocks |-> blocks, buf |-> buf, depth |-> depth],
                           Ch(where_text, b_pos + 1))
       IN  /\ blocks' = st.blocks
           /\ buf' = st.buf
           /\ depth' = st.depth
    /\ b_pos' = b_pos + 1
    /\ UNCHANGED <<where_text, b_pc>>
    /\ UNCHANGED <<parserVars, collapseVars, uriVars, tripleVars>>
    /\ UNCHANGED kgVars

\* the tail and the return
BlockReturn ==
    /\ b_pc = "loop"
    /\ b_pos = Len(where_text)
    /\ blocks' = BlockTail([blocks |-> blocks, buf |-> buf, depth |-> depth])
    /\ b_pc' = "done"
    /\ UNCHANGED <<where_text, b_pos, buf, depth>>
    /\ UNCHANGED <<parserVars, collapseVars, uriVars, tripleVars>>
    /\ UNCHANGED kgVars

NextBlocks == BlockChar \/ BlockReturn

SpecBlocks == InitBlocks /\ [][NextBlocks]_vars

----------------------------------------------------------------------------
(* SpecTriples: _extract_triples, one token per step. *)

InitTriples ==
    /\ block_text \in BlockTexts
    /\ tokens = <<>>
    /\ i = 0
    /\ subj = None
    /\ pred = None
    /\ triples = <<>>
    /\ t_pc = "start"
    /\ ParserIdle /\ CollapseIdle /\ UriIdle /\ BlocksIdle /\ KgIdle

\* the clauses are stripped and the block is tokenised
Tokenize ==
    /\ t_pc = "start"
    /\ tokens' = TOKEN_RE_findall(StripAll(block_text, 1), 1)
    /\ t_pc' = "loop"
    /\ UNCHANGED <<block_text, i, subj, pred, triples>>
    /\ UNCHANGED <<parserVars, collapseVars, uriVars, blockVars>>
    /\ UNCHANGED kgVars

\* one iteration of "while i < len(tokens)"
TokenStep ==
    /\ t_pc = "loop"
    /\ i < Len(tokens)
    /\ LET st == TripleStep([subj |-> subj, pred |-> pred, triples |-> triples],
                            tokens[i + 1])
       IN  /\ subj' = st.subj
           /\ pred' = st.pred
           /\ triples' = st.triples
    /\ i' = i + 1
    /\ UNCHANGED <<block_text, tokens, t_pc>>
    /\ UNCHANGED <<parserVars, collapseVars, uriVars, blockVars>>
    /\ UNCHANGED kgVars

\* return triples
TriplesReturn ==
    /\ t_pc = "loop"
    /\ i = Len(tokens)
    /\ t_pc' = "done"
    /\ UNCHANGED <<block_text, tokens, i, subj, pred, triples>>
    /\ UNCHANGED <<parserVars, collapseVars, uriVars, blockVars>>
    /\ UNCHANGED kgVars

NextTriples == Tokenize \/ TokenStep \/ TriplesReturn

SpecTriples == InitTriples /\ [][NextTriples]_vars

----------------------------------------------------------------------------
(* SpecFetch: DBpediaRetriever._fetch_dbpedia_triples, one attempt per     *)
(* step.  Every call of the endpoint returns or fails (setTimeout), and    *)
(* time.sleep ends, so the steps are weakly fair.                          *)

InitFetch ==
    /\ f_entity \in CleanEntities
    /\ max_retries \in 0..MaxRetries
    /\ attempt = 0
    /\ f_queries = 0
    /\ f_sleeps = 0
    /\ f_err = "none"
    /\ res = None
    /\ f_out = <<>>
    /\ f_pc = "loop"
    /\ TextIdle /\ RunIdle /\ ExtractIdle

\* sparql.query().convert() succeeds: break
QueryOk(bindings) ==
    /\ f_pc = "loop"
    /\ attempt < max_retries
    /\ f_queries' = f_queries + 1
    /\ res' = <<bindings>>
    /\ f_err' = "none"
    /\ f_pc' = "convert"
    /\ UNCHANGED <<f_entity, max_retries, attempt, f_sleeps, f_out>>
    /\ UNCHANGED <<textVars, runVars, extractVars>>

\* except (urllib.error.HTTPError, urllib.error.URLError)
QueryHttpError ==
    /\ f_pc = "loop"
    /\ attempt < max_retries
    /\ f_queries' = f_queries + 1
    /\ f_err' = "http"
    /\ IF MayRetry(attempt, max_retries)
       THEN /\ f_sleeps' = f_sleeps + 1
            /\ attempt' = attempt + 1
            /\ UNCHANGED <<f_out, f_pc>>
       ELSE /\ f_out' = <<Skipped(f_entity)>>
            /\ f_pc' = "returned"
            /\ UNCHANGED <<f_sleeps, attempt>>
    /\ UNCHANGED <<f_entity, max_retries, res>>
    /\ UNCHANGED <<textVars, runVars, extractVars>>

\* except Exception
QueryOtherError ==
    /\ f_pc = "loop"
    /\ attempt < max_retries
    /\ f_queries' = f_queries + 1
    /\ f_err' = "other"
    /\ f_out' = <<Skipped(f_entity)>>
    /\ f_pc' = "returned"
    /\ UNCHANGED <<f_entity, max_retries, attempt, f_sleeps, res>>
    /\ UNCHANGED <<textVars, runVars, extractVars>>

\* the loop ends without break or return: res is unbound at line 122
ResUnbound ==
    /\ f_pc = "loop"
    /\ attempt >= max_retries
    /\ f_pc' = "raised"
    /\ UNCHANGED <<f_entity, max_retries, attempt, f_queries, f_sleeps, f_err,
                   res, f_out>>
    /\ UNCHANGED <<textVars, runVars, extractVars>>

\* the loop over the bindings and the return
Convert ==
    /\ f_pc = "convert"
    /\ f_out' = ShortTriples(res[1], f_entity)
    /\ f_pc' = "returned"
    /\ UNCHANGED <<f_entity, max_retries, attempt, f_queries, f_sleeps, f_err, res>>
    /\ UNCHANGED <<textVars, runVars, extractVars>>

QueryOkAny == \E bindings \in Responses : QueryOk(bindings)

NextFetch ==
    QueryOkAny \/ QueryHttpError \/ QueryOtherError \/ ResUnbound \/ Convert

SpecFetch == InitFetch /\ [][NextFetch]_vars /\ WF_vars(NextFetch)

----------------------------------------------------------------------------
(* SpecRun: DBpediaRetriever.run, one record per step.  The checkpoint     *)
(* file is absent or was left by an earlier run that stopped after the     *)
(* first record of the same list.                                          *)

\* the arguments of the calls of _fetch_dbpedia_triples for a list of
\* entities, from entity j on: the cleaned names that are not empty
RECURSIVE Fetched(_, _)
Fetched(entities, j) ==
    IF j > Len(entities) THEN <<>>
    ELSE (IF _clean_uri(entities[j]) = "" THEN <<>>
          ELSE <<_clean_uri(entities[j])>>)
         \o Fetched(entities, j + 1)

\* triples_by_entity of a record; outs[j] is how the fetch of entity j ends
TriplesByEntity(entities, outs) ==
    [j \in 1..Len(entities) |->
        IF _clean_uri(entities[j]) = ""
        THEN <<Skipped(entities[j])>>
        ELSE FetchResult(outs[j], _clean_uri(entities[j]))]

InitRun ==
    /\ r_data \in DataLists
    /\ r_i = 0
    /\ done_ids = {}
    /\ cache = <<>>
    /\ checkpoint_file \in
         {None,
          << <<[id |-> r_data[1].id,
                retrieved_triples |->
                    TriplesByEntity(r_data[1].entities,
                        [j \in 1..Len(r_data[1].entities) |-> "one"])]>> >>}
    /\ remove_checkpoint_on_complete \in BOOLEAN
    /\ r_pc = "start"
    /\ r_existing = <<>> /\ r_fetched = <<>> /\ r_results = None
    /\ TextIdle /\ FetchIdle /\ ExtractIdle

\* existing = self._load_checkpoint(); done_ids; cache
RunStart ==
    /\ r_pc = "start"
    /\ LET existing == IF checkpoint_file = None THEN <<>> ELSE checkpoint_file[1]
       IN  /\ r_existing' = existing
           /\ done_ids' = {existing[n].id : n \in 1..Len(existing)}
           /\ cache' = CacheOf(existing, 1, <<>>)
    /\ r_pc' = "loop"
    /\ UNCHANGED <<r_data, r_i, checkpoint_file, remove_checkpoint_on_complete>>
    /\ UNCHANGED <<r_fetched, r_results>>
    /\ UNCHANGED <<textVars, fetchVars, extractVars>>

\* one iteration of the loop over data
RunRecord(outs) ==
    /\ r_pc = "loop"
    /\ r_i < Len(r_data)
    /\ LET sid == r_data[r_i + 1].id
           tbe == TriplesByEntity(r_data[r_i + 1].entities, outs)
       IN  IF sid \in done_ids
           THEN /\ r_data' = [r_data EXCEPT ![r_i + 1].retrieved_triples =
                                 <<CacheGet(cache, sid).retrieved_triples>>]
                /\ r_fetched' = Append(r_fetched, <<>>)
                /\ UNCHANGED <<done_ids, cache, checkpoint_file, r_results>>
           ELSE /\ r_data' = [r_data EXCEPT ![r_i + 1].retrieved_triples = <<tbe>>]
                /\ r_fetched' =
                     Append(r_fetched, Fetched(r_data[r_i + 1].entities, 1))
                /\ cache' = CachePut(cache, [id |-> sid, retrieved_triples |-> tbe])
                /\ done_ids' = done_ids \cup {sid}
                /\ checkpoint_file' =
                     IF r_i % 10 = 0
                     THEN <<CachePut(cache, [id |-> sid, retrieved_triples |-> tbe])>>
                     ELSE checkpoint_file
                /\ r_results' =
                     IF r_i % 10 = 0
                     THEN <<CachePut(cache, [id |-> sid, retrieved_triples |-> tbe])>>
                     ELSE r_results
    /\ r_i' = r_i + 1
    /\ UNCHANGED <<remove_checkpoint_on_complete, r_pc, r_existing>>
    /\ UNCHANGED <<textVars, fetchVars, extractVars>>

\* the last save, the removal of the file and the return
RunReturn ==
    /\ r_pc = "loop"
    /\ r_i = Len(r_data)
    /\ r_results' = <<cache>>
    /\ checkpoint_file' = IF remove_checkpoint_on_complete THEN None ELSE <<cache>>
    /\ r_pc' = "done"
    /\ UNCHANGED <<r_data, r_i, done_ids, cache, remove_checkpoint_on_complete>>
    /\ UNCHANGED <<r_existing, r_fetched>>
    /\ UNCHANGED <<textVars, fetchVars, extractVars>>

RunRecordAny ==
    /\ r_i < Len(r_data)
    /\ \E outs \in [1..Len(r_data[r_i + 1].entities) -> RunOutcomes] :
          RunRecord(outs)

NextRun == RunStart \/ RunRecordAny \/ RunReturn

SpecRun == InitRun /\ [][NextRun]_vars

----------------------------------------------------------------------------
(* SpecExtract: EntityExtractorBase.run with one of the extractors, one    *)
(* record per step.                                                        *)

InitExtract ==
    /\ x_class \in {"RefinedEntityExtractor", "FalconEntityExtractor"}
    /\ x_data \in QuestionLists
    /\ x_entities = [k \in 1..Len(x_data) |-> None]
    /\ x_i = 0
    /\ x_failed = {}
    /\ x_pc = "run"
    /\ TextIdle /\ FetchIdle /\ RunIdle

\* RefinedEntityExtractor: process_text answers spans
RefinedOk(spans) ==
    /\ x_pc = "run" /\ x_i < Len(x_data)
    /\ x_class = "RefinedEntityExtractor"
    /\ x_entities' = [x_entities EXCEPT ![x_i + 1] = <<RefinedEntities(spans, 1)>>]
    /\ x_i' = x_i + 1
    /\ UNCHANGED <<x_class, x_data, x_failed, x_pc>>
    /\ UNCHANGED <<textVars, fetchVars, runVars>>

\* RefinedEntityExtractor: process_text raises; nothing catches it
RefinedFail ==
    /\ x_pc = "run" /\ x_i < Len(x_data)
    /\ x_class = "RefinedEntityExtractor"
    /\ x_failed' = x_failed \cup {x_i + 1}
    /\ x_pc' = "raised"
    /\ UNCHANGED <<x_class, x_data, x_entities, x_i>>
    /\ UNCHANGED <<textVars, fetchVars, runVars>>

\* FalconEntityExtractor: the request is answered and decoded
FalconOk(response) ==
    /\ x_pc = "run" /\ x_i < Len(x_data)
    /\ x_class = "FalconEntityExtractor"
    /\ x_entities' = [x_entities EXCEPT ![x_i + 1] = <<FalconEntities(response)>>]
    /\ x_i' = x_i + 1
    /\ UNCHANGED <<x_class, x_data, x_failed, x_pc>>
    /\ UNCHANGED <<textVars, fetchVars, runVars>>

\* FalconEntityExtractor: post, raise_for_status or json raises: return []
FalconFail ==
    /\ x_pc = "run" /\ x_i < Len(x_data)
    /\ x_class = "FalconEntityExtractor"
    /\ x_failed' = x_failed \cup {x_i + 1}
    /\ x_entities' = [x_entities EXCEPT ![x_i + 1] = <<(<<>>)>>]
    /\ x_i' = x_i + 1
    /\ UNCHANGED <<x_class, x_data, x_pc>>
    /\ UNCHANGED <<textVars, fetchVars, runVars>>

\* return data
ExtractReturn ==
    /\ x_pc = "run" /\ x_i = Len(x_data)
    /\ x_pc' = "done"
    /\ UNCHANGED <<x_class, x_data, x_entities, x_i, x_failed>>
    /\ UNCHANGED <<textVars, fetchVars, runVars>>

RefinedOkAny == \E spans \in SpanLists : RefinedOk(spans)
FalconOkAny == \E response \in FalconResponses : FalconOk(response)

NextExtract ==
    RefinedOkAny \/ RefinedFail \/ FalconOkAny \/ FalconFail \/ ExtractReturn

SpecExtract == InitExtract /\ [][NextExtract]_vars

----------------------------------------------------------------------------
(* The claims. *)

\* the triples of a query before prefix expansion (the list "flat")
FlatOf(query_text) ==
    LET m == WHERE_PATTERN_search(query_text, 1)
    IN  IF m.found THEN Flat(_top_level_blocks(m.group1), 1) ELSE <<>>

\* the part of tok before its first ":" and the part after it
HasColon(tok)  == SkipNotIn(tok, 1, {":"}) <= Len(tok)
PrefixOf(tok)  == SubSeq(tok, 1, SkipNotIn(tok, 1, {":"}) - 1)
LocalOf(tok)   == SubSeq(tok, SkipNotIn(tok, 1, {":"}) + 1, Len(tok))

\* C1 (Spec): global prefix persistence.  When the parser has processed a
\* record that declares a prefix and then processes a record that uses the
\* prefix without declaring it, every such element of the later record's
\* triples is expanded with the earlier declaration, namespace:localname.
C1_GlobalPrefixExpandsLaterRecord ==
    stage = "parsed" =>
        LET q     == QueryText(sample[1])
            local == LocalPrefixes(q)
            flat  == FlatOf(q)
        IN  \A n \in 1..Len(flat), e \in 1..3 :
                ( /\ HasColon(flat[n][e])
                  /\ PrefixOf(flat[n][e]) \notin DOMAIN local
                  /\ PrefixOf(flat[n][e]) \in DOMAIN global_prefixes )
                => sample[1].triples[n][e] =
                       global_prefixes[PrefixOf(flat[n][e])] \o ":"
                           \o LocalOf(flat[n][e])

\* C2 (SpecCollapse): for a text with a SELECT token the output of
\* uri_collapse_after_select is the input with only the bracketed IRIs after
\* SELECT replaced: the part before SELECT and all other text are kept.
C2_CollapseKeepsTextBeforeSelect ==
    (c_pc # "start" /\ SELECT_RX_search(c_in, 1) > 0) =>
        c_out[1] = SubSeq(c_in, 1, SELECT_RX_search(c_in, 1) - 1)
                     \o IRI_RX_sub(SubSeq(c_in, SELECT_RX_search(c_in, 1),
                                          Len(c_in)), 1)

\* C3 (Spec): a WHERE body that is a group of two brace-delimited
\* alternatives joined by UNION yields one triple per alternative, in order.
C3_UnionYieldsOneTriplePerAlternative ==
    stage = "parsed" =>
        \A pp \in UnionPairs :
            sample[1].query = UnionQuery(pp[1], pp[2])
            => sample[1].triples = <<pp[1], pp[2]>>

\* C4 (SpecTriples): a block that is a FILTER with nested parentheses
\* followed by one triple pattern yields exactly that triple pattern.
C4_FilterContentsYieldNoTriple ==
    t_pc = "done" =>
        \A q \in [1..3 -> NonSepToks] :
            block_text = Join(<<FilterClause, q[1], q[2], q[3], ".">>, " ")
            => triples = <<q>>

\* C5 (SpecCollapse): idempotence.  Collapsing the collapsed text changes
\* nothing.
C5_CollapseIdempotent ==
    c_pc = "twice" => c_out[2] = c_out[1]

\* C6 (SpecTriples): separator semantics of the triple assembly.  The
\* tokens s p o1 , o2 . yield exactly (s,p,o1), (s,p,o2); the tokens
\* s p1 o1 ; p2 o2 . yield exactly (s,p1,o1), (s,p2,o2); and the first
\* non-separator token after a "." becomes a fresh subject, with no
\* predicate.
C6_SeparatorSemantics ==
    /\ t_pc = "done" =>
        /\ ( /\ Len(tokens) = 6
             /\ tokens[4] = "," /\ tokens[6] = "."
             /\ \A k \in {1, 2, 3, 5} : tokens[k] \notin Seps )
           => triples = << <<tokens[1], tokens[2], tokens[3]>>,
                           <<tokens[1], tokens[2], tokens[5]>> >>
        /\ ( /\ Len(tokens) = 7
             /\ tokens[4] = ";" /\ tokens[7] = "."
             /\ \A k \in {1, 2, 3, 5, 6} : tokens[k] \notin Seps )
           => triples = << <<tokens[1], tokens[2], tokens[3]>>,
                           <<tokens[1], tokens[5], tokens[6]>> >>
    /\ ( /\ t_pc = "loop" /\ i >= 2
         /\ tokens[i - 1] = "." /\ tokens[i] \notin Seps )
       => (subj = <<tokens[i]>> /\ pred = None)

\* C6 witness: a comma block whose first object is a literal that holds
\* separator characters has been assembled into two triples
C6_Witness ==
    /\ t_pc = "done"
    /\ block_text = "?x dbo:p \"a, b.\"@en , ?x ."
    /\ triples = << <<"?x", "dbo:p", "\"a, b.\"@en">>, <<"?x", "dbo:p", "?x">> >>

\* what _replace_uri and _shorten look up: the IRI without its brackets
Unbracketed(u) ==
    IF StartsWith(u, "<") /\ EndsWith(u, ">") THEN SubSeq(u, 2, Len(u) - 1) ELSE u

\* C7 (SpecUri): longest match.  When one namespace of the table is a
\* string-prefix of another, an IRI under the longer namespace is collapsed
\* with the longer namespace's prefix token, never the shorter one's.
C7_LongestNamespaceWins ==
    u_pc \in {"replaced", "shortened"} =>
        \A a, b \in 1..Len(PREFIX_MAP) :
            ( /\ a # b
              /\ StartsWith(PREFIX_MAP[b][1], PREFIX_MAP[a][1])
              /\ StartsWith(Unbracketed(u_in), PREFIX_MAP[b][1]) )
            => /\ StartsWith(u_out, PREFIX_MAP[b][2] \o ":")
               /\ ~StartsWith(u_out, PREFIX_MAP[a][2] \o ":")

\* C7 witness: an IRI under http://dbpedia.org/resource/, which
\* http://dbpedia.org/ is a prefix of, has been collapsed
C7_Witness ==
    /\ u_pc = "replaced"
    /\ u_in = "<http://dbpedia.org/resource/Paris>"
    /\ u_out = "res:Paris"

\* C8 (Spec): the Global Prefix Table starts empty; every step keeps every
\* token it holds, with the same namespace (first writer wins); and the
\* step that parses a record leaves every prefix the record declares in
\* the table, whether or not the record has a WHERE clause.
C8_GlobalPrefixTableOnlyGrows ==
    /\ DOMAIN global_prefixes = {}
    /\ [][ /\ \A k \in DOMAIN global_prefixes :
                /\ k \in DOMAIN global_prefixes'
                /\ global_prefixes'[k] = global_prefixes[k]
           /\ (stage # "parsed" /\ stage' = "parsed") =>
                \A k \in DOMAIN LocalPrefixes(QueryText(sample[1])) :
                    k \in DOMAIN global_prefixes' ]_vars

\* C8 witness: a record without a WHERE clause that declares "ex" with
\* another namespace than the table holds has been parsed
C8_Witness ==
    /\ stage = "parsed"
    /\ ~WHERE_PATTERN_search(QueryText(sample[1]), 1).found
    /\ "ex" \in DOMAIN LocalPrefixes(QueryText(sample[1]))
    /\ "dbo" \in DOMAIN global_prefixes
    /\ global_prefixes["ex"] # LocalPrefixes(QueryText(sample[1]))["ex"]

\* brace depth after the first n characters of text
DepthAfter(text, n) ==
    Cardinality({k \in 1..n : Ch(text, k) = "{"})
        - Cardinality({k \in 1..n : Ch(text, k) = "}"})
Balanced(text) ==
    /\ \A n \in 1..Len(text) : DepthAfter(text, n) >= 0
    /\ DepthAfter(text, Len(text)) = 0
\* the brace groups that open at depth 0, one per "}" that returns to it
Depth1Groups(text) ==
    {k \in 1..Len(text) : Ch(text, k) = "}" /\ DepthAfter(text, k) = 0}
\* position k holds text outside every brace group
AtDepth0(text, k) ==
    Ch(text, k) \notin {"{", "}"} /\ DepthAfter(text, k) = 0
\* the maximal runs of such text, each named by where it starts
Depth0Fragments(text) ==
    {k \in 1..Len(text) :
        AtDepth0(text, k) /\ (k = 1 \/ ~AtDepth0(text, k - 1))}
\* those of them that hold more than whitespace
NonBlankFragments(text) ==
    {k \in Depth0Fragments(text) :
        \E n \in k..Len(text) :
            /\ Ch(text, n) \notin WS
            /\ \A j \in k..n : AtDepth0(text, j)}

\* C9 (SpecBlocks): depth-correctness.  For a text with balanced braces
\* the number of blocks is the number of depth-1 brace groups plus the
\* number of depth-0 text fragments outside them (counting either every
\* fragment or every fragment that is not blank).
C9_BlockCountIsGroupsPlusFragments ==
    (b_pc = "done" /\ Balanced(where_text)) =>
        \/ Len(blocks) = Cardinality(Depth1Groups(where_text))
                           + Cardinality(Depth0Fragments(where_text))
        \/ Len(blocks) = Cardinality(Depth1Groups(where_text))
                           + Cardinality(NonBlankFragments(where_text))

\* C10 (Spec): a brace-free WHERE body of simple patterns separated by "."
\* yields exactly one triple per pattern, in source order, a repeated
\* pattern repeated; without PREFIX declarations the triples are the
\* patterns themselves.
C10_TriplesInSourceOrder ==
    stage = "parsed" =>
        \A pats \in PatLists, pro \in Prologues :
            QueryText(sample[1]) = pro \o PatternQuery(pats)
            => /\ Len(sample[1].triples) = Len(pats)
               /\ \A n \in 1..Len(pats), e \in 1..3 :
                     sample[1].triples[n][e] =
                         ExpandTok(LocalPrefixes(pro), pats[n][e])
               /\ pro = "" => sample[1].triples = pats

\* C10 witness: a body that holds the same pattern twice has been parsed
\* into the two equal triples
C10_Witness ==
    /\ stage = "parsed"
    /\ sample[1].query =
         "SELECT ?uri WHERE { ?uri dbo:birthPlace res:Paris . ?uri dbo:birthPlace res:Paris }"
    /\ sample[1].triples = << <<"?uri", "dbo:birthPlace", "res:Paris">>,
                              <<"?uri", "dbo:birthPlace", "res:Paris">> >>

\* C11 (Spec): prefix expansion with the record-local table.  Every element
\* of every emitted triple that holds a ":" and whose part before the first
\* ":" is a key of the record's local prefix table is the namespace, a ":"
\* and the local name; every other element is emitted as it was read.
C11_LocalPrefixExpansion ==
    stage = "parsed" =>
        LET local == LocalPrefixes(QueryText(sample[1]))
            flat  == FlatOf(QueryText(sample[1]))
        IN  /\ Len(sample[1].triples) = Len(flat)
            /\ \A n \in 1..Len(flat), e \in 1..3 :
                  sample[1].triples[n][e] =
                      IF HasColon(flat[n][e]) /\ PrefixOf(flat[n][e]) \in DOMAIN local
                      THEN local[PrefixOf(flat[n][e])] \o ":" \o LocalOf(flat[n][e])
                      ELSE flat[n][e]

\* C11 witness: a record that declares dbo and not rdf has been parsed; its
\* triple holds a variable, an undeclared prefix and an expanded element
C11_Witness ==
    /\ stage = "parsed"
    /\ DOMAIN LocalPrefixes(QueryText(sample[1])) = {"ex", "dbo"}
    /\ sample[1].triples =
         << <<"?uri", "rdf:type", "http://dbpedia.org/ontology/:Person">> >>

\* the text holds a WHERE { ... } span: the keyword, optional whitespace, an
\* opening brace and, at least one character later, a closing brace
HasWhereSpan(q) ==
    \E k \in 1..Len(q) :
        /\ KwAt(q, k, "WHERE")
        /\ Ch(q, SkipIn(q, k + 5, WS)) = "{"
        /\ \E b \in (SkipIn(q, k + 5, WS) + 2)..Len(q) : Ch(q, b) = "}"

\* the positions of the answer entries that bind variable v, and the values
\* of these entries in input order
BindingsOf(answers, v) ==
    {n \in 1..Len(answers) : ~answers[n].is_bool /\ answers[n].var = v}
ValuesOf(answers, v) ==
    [k \in 1..Cardinality(BindingsOf(answers, v)) |->
        answers[CHOOSE n \in BindingsOf(answers, v) :
                    Cardinality({m \in BindingsOf(answers, v) : m <= n}) = k].value]
BoundVars(answers) ==
    {answers[n].var : n \in {m \in 1..Len(answers) : ~answers[m].is_bool}}

\* C12 (Spec): a record without a WHERE { ... } span gets an empty triples
\* list and its answers_value is still set; no step fails on it, the parser
\* moves past it and the next record can be processed.
C12_NoWhereGivesEmptyTriples ==
    /\ [](( /\ stage = "parsed"
            /\ ~HasWhereSpan(QueryText(sample[1])) )
          => /\ sample[1].triples = <<>>
             /\ DOMAIN sample[1].answers_value = BoundVars(sample[1].answers)
             /\ (idx < MaxRecords => ENABLED LoadAny))
    /\ [][ ( /\ stage \in {"loaded", "normalized"}
             /\ stage' = "parsed"
             /\ ~HasWhereSpan(QueryText(sample[1])) )
           => (sample'[1].triples = <<>> /\ idx' = idx + 1) ]_vars

\* C12 witness: a first record without WHERE, with bindings, has been parsed
C12_Witness ==
    /\ stage = "parsed"
    /\ idx = 1
    /\ sample[1].query = "ASK { ?x a ex:Foo }"
    /\ sample[1].triples = <<>>
    /\ DOMAIN sample[1].answers_value = {"uri", "x"}

C14_ExactlyOneColonStripped ==
    u_pc = "replaced" =>
        \A k \in 1..Len(PREFIX_MAP) :
            ( /\ StartsWith(Unbracketed(u_in), PREFIX_MAP[k][1])
              /\ \A j \in 1..Len(PREFIX_MAP) :
                    StartsWith(Unbracketed(u_in), PREFIX_MAP[j][1])
                    => Len(PREFIX_MAP[j][1]) <= Len(PREFIX_MAP[k][1]) )
            => LET rem == SubSeq(Unbracketed(u_in), Len(PREFIX_MAP[k][1]) + 1,
                                 Len(Unbracketed(u_in)))
               IN  u_out = PREFIX_MAP[k][2] \o ":"
                             \o (IF StartsWith(rem, ":")
                                 THEN SubSeq(rem, 2, Len(rem)) ELSE rem)

\* what _extract_triples assembles from a token list
Assembled(toks) ==
    TripleLoop([subj |-> None, pred |-> None, triples |-> <<>>], toks, 1).triples
\* toks without its elements a..b
Without(toks, a, b) == SubSeq(toks, 1, a - 1) \o SubSeq(toks, b + 1, Len(toks))

\* C15 (SpecTriples): dangling fragments.  A subject alone, or a subject and
\* a predicate, that starts the block or follows a "." and is ended by a "."
\* or by the end of the block yields no triple, and the block yields what it
\* yields without the fragment and its "."; a predicate left without object
\* by a ";" yields nothing either.
C15_DanglingFragmentsDropped ==
    t_pc = "done" =>
        /\ \A a \in 1..Len(tokens), d \in 1..2 :
              ( /\ a + d - 1 <= Len(tokens)
                /\ (a = 1 \/ tokens[a - 1] = ".")
                /\ \A k \in a..(a + d - 1) : tokens[k] \notin Seps
                /\ (a + d - 1 = Len(tokens) \/ tokens[a + d] = ".") )
              => triples = Assembled(Without(tokens, a, a + d))
        /\ \A a \in 1..(Len(tokens) - 2) :
              ( /\ (a = 1 \/ tokens[a - 1] = ".")
                /\ tokens[a] \notin Seps /\ tokens[a + 1] \notin Seps
                /\ tokens[a + 2] = ";" )
              => triples = Assembled(Without(tokens, a + 1, a + 1))
        /\ \A d \in Dangling, q \in [1..3 -> NonSepToks] :
              (tokens = d \o <<".">> \o q \/ tokens = q \o <<".">> \o d)
              => triples = <<q>>

\* C15 witness: a block that opens with a subject and a predicate without
\* object has returned the one triple of the pattern behind them
C15_Witness ==
    /\ t_pc = "done"
    /\ tokens = <<"?s", "?p", ".", "?x", "dbo:p", "\"a, b.\"@en">>
    /\ triples = << <<"?x", "dbo:p", "\"a, b.\"@en">> >>

\* a triple: exactly three terms, none empty, none a separator
IsTriple(t) ==
    /\ DOMAIN t = 1..3
    /\ \A e \in 1..3 : Len(t[e]) >= 1 /\ t[e] \notin Seps

\* C16 (SpecTriples): at every step every triple assembled so far is a
\* sequence of exactly three terms none of which is ".", ";" or ",", and
\* so is its expansion with any local prefix table.
C16_TriplesAreThreeTerms ==
    \A n \in 1..Len(triples) :
        /\ IsTriple(triples[n])
        /\ \A pro \in Prologues :
              IsTriple(Expanded(LocalPrefixes(pro), triples)[n])

\* C16 witness: separators in a row, between and after terms, and one triple
C16_Witness ==
    /\ t_pc = "done"
    /\ tokens = <<"?x", "dbo:p", "?x", ",", "dbo:p", ".">>
    /\ triples = << <<"?x", "dbo:p", "?x">>, <<"?x", "dbo:p", "dbo:p">> >>

\* e is what value is in short namespace form: without brackets, under no
\* namespace of the table, with the prefix token of the table when value is
\* under one of its namespaces, and value itself when it is under none
InShortForm(e, value) ==
    /\ ~StartsWith(e, "<")
    /\ \A k \in 1..Len(PREFIX_MAP) : ~StartsWith(e, PREFIX_MAP[k][1])
    /\ (\E k \in 1..Len(PREFIX_MAP) : StartsWith(value, PREFIX_MAP[k][1]))
         => \E k \in 1..Len(PREFIX_MAP) :
                /\ StartsWith(value, PREFIX_MAP[k][1])
                /\ e = PREFIX_MAP[k][2] \o ":"
                         \o SubSeq(value, Len(PREFIX_MAP[k][1]) + 1, Len(value))
    /\ (\A k \in 1..Len(PREFIX_MAP) : ~StartsWith(value, PREFIX_MAP[k][1]))
         => e = value

\* the value a binding gives for a key, with the default of the code
ValueIn(b, key) ==
    IF key \in DOMAIN b THEN b[key]
    ELSE IF key = "predicate" THEN "UNKNOWN"
    ELSE "http://dbpedia.org/resource/" \o f_entity

C18_OneEntryPerEntity ==
    r_pc = "done" =>
        \A k \in 1..Len(r_data) :
            /\ r_data[k].retrieved_triples # None
            /\ Len(r_data[k].retrieved_triples[1]) = Len(r_data[k].entities)
            /\ \A j \in 1..Len(r_data[k].entities) :
                  \E o \in RunOutcomes :
                      r_data[k].retrieved_triples[1][j] =
                          TriplesByEntity(r_data[k].entities,
                              [m \in 1..Len(r_data[k].entities) |-> o])[j]

\* C19 (SpecExtract): no extractor raises: when the call behind
\* extract_entities fails the record gets the empty list, and run ends with
\* the entities field of every record set.
C19_ExtractorsNeverRaise ==
    /\ x_pc # "raised"
    /\ \A k \in x_failed : x_entities[k] = <<(<<>>)>>
    /\ x_pc = "done" => \A k \in 1..Len(x_data) : x_entities[k] # None

\* the position of the brace that opens the first WHERE { ... } span of q
WhereBrace(q) ==
    SkipIn(q, 5 + Least({k \in 1..Len(q) :
                            KwAt(q, k, "WHERE") /\ Ch(q, SkipIn(q, k + 5, WS)) = "{"},
                        1, Len(q)), WS)
\* the position of the brace that closes the group opened at position a
MatchingBrace(q, a) ==
    Least({b \in (a + 1)..Len(q) :
              DepthAfter(q, b) = DepthAfter(q, a) - 1}, a + 1, Len(q))

\* C20 (Spec): matching-clause location.  For a query text with balanced
\* braces the body that parse_sparql hands to _top_level_blocks is the whole
\* interior of the outermost WHERE { ... } span: the text between the brace
\* after WHERE and its matching brace.
C20_WhereBodyIsOutermostInterior ==
    ( /\ stage = "parsed"
      /\ Balanced(QueryText(sample[1]))
      /\ HasWhereSpan(QueryText(sample[1])) )
    => /\ WHERE_PATTERN_search(QueryText(sample[1]), 1).group1 =
             SubSeq(QueryText(sample[1]),
                    WhereBrace(QueryText(sample[1])) + 1,
                    MatchingBrace(QueryText(sample[1]),
                                  WhereBrace(QueryText(sample[1]))) - 1)
       /\ sample[1].triples =
             Expanded(LocalPrefixes(QueryText(sample[1])),
                 Flat(_top_level_blocks(
                     SubSeq(QueryText(sample[1]),
                            WhereBrace(QueryText(sample[1])) + 1,
                            MatchingBrace(QueryText(sample[1]),
                                          WhereBrace(QueryText(sample[1]))) - 1)),
                      1))

\* the PREFIX declarations that stand before the SELECT token of a raw query
DeclaredBeforeSelect(q) ==
    IF SELECT_RX_search(q, 1) > 0
    THEN LocalPrefixes(SubSeq(q, 1, SELECT_RX_search(q, 1) - 1))
    ELSE <<>>

\* C21 (Spec): the collapser followed by the parser.  When a preprocessor
\* has stored the collapsed text of a raw query in formated_query and
\* parse_sparql has processed the record, the record-local prefix table
\* holds every PREFIX declaration that stood before SELECT in the raw
\* query, and every prefixed name of the WHERE body that uses one of them
\* is expanded with it.
C21_PrologueReachesExtractor ==
    (stage = "parsed" /\ sample[1].formated_query # "") =>
        \A q \in Queries :
            uri_collapse_after_select(q) = sample[1].formated_query =>
                LET decl  == DeclaredBeforeSelect(q)
                    local == LocalPrefixes(QueryText(sample[1]))
                    flat  == FlatOf(QueryText(sample[1]))
                IN  /\ \A p \in DOMAIN decl :
                          p \in DOMAIN local /\ local[p] = decl[p]
                    /\ \A n \in 1..Len(flat), e \in 1..3 :
                          ( /\ HasColon(flat[n][e])
                            /\ PrefixOf(flat[n][e]) \in DOMAIN decl )
                          => sample[1].triples[n][e] =
                                 decl[PrefixOf(flat[n][e])] \o ":"
                                     \o LocalOf(flat[n][e])

\* the record of id sid in the checkpoint that run loaded
Checkpointed(sid) == CacheGet(CacheOf(r_existing, 1, <<>>), sid)

\* C22 (SpecRun): checkpoint resume.  A processed record whose id is in the
\* checkpoint loaded at the start is never fetched and gets exactly the
\* checkpointed retrieved_triples; every other processed record is fetched
\* once for each of its entities (those with a non-empty cleaned name).
\* When run has completed, the last checkpoint written holds every
\* processed record, and the file is gone if remove_checkpoint_on_complete
\* is set.
C22_CheckpointResume ==
    r_pc \in {"loop", "done"} =>
        /\ \A k \in 1..r_i :
              IF \E n \in 1..Len(r_existing) : r_existing[n].id = r_data[k].id
              THEN /\ r_fetched[k] = <<>>
                   /\ r_data[k].retrieved_triples =
                          <<Checkpointed(r_data[k].id).retrieved_triples>>
              ELSE r_fetched[k] = Fetched(r_data[k].entities, 1)
        /\ r_pc = "done" =>
              /\ r_results # None
              /\ \A k \in 1..Len(r_data) :
                    \E n \in 1..Len(r_results[1]) :
                        /\ r_results[1][n].id = r_data[k].id
                        /\ <<r_results[1][n].retrieved_triples>> =
                               r_data[k].retrieved_triples
              /\ remove_checkpoint_on_complete => checkpoint_file = None

\* the scan the claim describes, from position k: whitespace is skipped,
\* then a quoted literal with its suffix, else a bracketed IRI, else one
\* separator character, else the maximal run of characters that are
\* neither whitespace nor separators
RECURSIVE ScanTokens(_, _)
ScanTokens(s, k) ==
    LET j == SkipIn(s, k, WS)
        e == IF STRING_RE_match(s, j) > 0 THEN STRING_RE_match(s, j)
             ELSE IF IRI_RE_match(s, j) > 0 THEN IRI_RE_match(s, j)
             ELSE IF Ch(s, j) \in SepChars THEN j + 1
             ELSE SkipNotIn(s, j, WS \cup SepChars)
    IN  IF j > Len(s) THEN <<>>
        ELSE <<SubSeq(s, j, e - 1)>> \o ScanTokens(s, e)

\* the number of non-whitespace characters of s
Visible(s) == Cardinality({k \in 1..Len(s) : Ch(s, k) \notin WS})

\* C23 (SpecTriples): the tokens of a block are those of a left-to-right
\* scan with the priority quoted literal, bracketed IRI, separator, bare
\* token, where a bare token is a maximal run of non-whitespace,
\* non-separator characters; no non-whitespace character of the block is
\* left out of the token sequence.
C23_TokensCoverBlock ==
    t_pc \in {"loop", "done"} =>
        /\ tokens = ScanTokens(StripAll(block_text, 1), 1)
        /\ Visible(Join(tokens, "")) = Visible(StripAll(block_text, 1))

\* C24 (SpecTriples): the triple-assembly automaton.  In every state of
\* _extract_triples the predicate slot is set only if the subject slot is
\* set; both slots are unset and no triple exists when the block starts; a
\* step appends a triple only when both slots are set, the triple being
\* (subject, predicate, current token) with the slots left as they were; so
\* the subject, predicate and object of every triple are tokens of this
\* block, read in this order.
C24_AssemblyAutomaton ==
    /\ [](t_pc # "off" =>
            /\ pred # None => subj # None
            /\ t_pc = "start" => (subj = None /\ pred = None /\ triples = <<>>)
            /\ i = 0 => (subj = None /\ pred = None /\ triples = <<>>)
            /\ \A n \in 1..Len(triples) :
                  \E a, b, c \in 1..i :
                      /\ a < b /\ b < c
                      /\ triples[n] = <<tokens[a], tokens[b], tokens[c]>>)
    /\ [][triples' # triples =>
            /\ subj # None /\ pred # None
            /\ tokens[i + 1] \notin SepChars
            /\ triples' = Append(triples, <<subj[1], pred[1], tokens[i + 1]>>)
            /\ subj' = subj /\ pred' = pred]_vars

\* C24 witness: after "s p o ; p2" both slots are set again, one triple was
\* appended and the object of the second is still to come
C24_Witness ==
    /\ t_pc = "loop"
    /\ i = 5 /\ i < Len(tokens)
    /\ tokens[4] = ";"
    /\ subj = <<tokens[1]>> /\ pred = <<tokens[5]>>
    /\ triples = << <<tokens[1], tokens[2], tokens[3]>> >>

\* what a SparqlParser that has processed no record computes for a record
FreshTriples(rec) ==
    Expanded(LocalPrefixes(QueryText(rec)), FlatOf(QueryText(rec)))
FreshAnswers(rec) == AnswerMap(rec.answers, 1, <<>>)

\* C25 (Spec): history independence.  Whatever records the parser has
\* processed before, the triples and answers_value of a processed record
\* are those a parser without history computes for it; the records
\* processed before show in the global prefix table only.
C25_OutputIndependentOfHistory ==
    stage = "parsed" =>
        /\ sample[1].triples = FreshTriples(sample[1])
        /\ sample[1].answers_value = FreshAnswers(sample[1])

\* C25 witness: the second record uses ex: without declaring it, after a
\* first record that declared ex, and its triple is the one a parser
\* without history gives
C25_Witness ==
    /\ stage = "parsed"
    /\ idx = 2
    /\ "ex" \in DOMAIN global_prefixes
    /\ "ex" \notin DOMAIN LocalPrefixes(QueryText(sample[1]))
    /\ sample[1].triples = << <<"?x", "a", "ex:Foo">> >>
    /\ sample[1].answers_value # <<>>

====
